---- MODULE Spec2Model ----
(***************************************************************************)
(* State-machine model of the SQLPanel component (src/app/page.tsx): the   *)
(* React state of the panel, the requests it has in flight, and one action *)
(* per event handler or per continuation of an awaited request.            *)
(*                                                                         *)
(* Conventions                                                             *)
(*  - A value that may be null is a sequence of length 0 (null) or 1.      *)
(*  - A JavaScript `undefined` string field is the sentinel Undefined.     *)
(*  - Strings that the code splits or searches (the parameter template and *)
(*    the saved CSV path) are sequences of one-character strings; all      *)
(*    other strings are TLA+ strings.                                      *)
(*  - The rendered page is a function of the current state: a handler runs *)
(*    with the state of the render in which the event is delivered, and    *)
(*    keeps the values it closed over across its awaits.                   *)
(*  - Each segment of a handler between two awaits is one atomic step      *)
(*    (single-threaded event loop).                                        *)
(***************************************************************************)
EXTENDS Integers, Sequences, FiniteSets, TLC

VARIABLES
    credentials,      \* useState: {host, port, user, password, database}
    query,            \* useState: SQL text
    loading,          \* useState: boolean
    result,           \* useState: QueryResult | null
    databases,        \* useState: string[]
    isConnected,      \* useState: boolean
    abortController,  \* useState: AbortController | null (controller id)
    csvFilename,      \* useState: string
    executablePath,   \* useState: string
    executableParams, \* useState: string (character sequence)
    savedCsvPath,     \* useState: string (character sequence)
    adminSettings,    \* useState: AdminSettings
    settingsReq,      \* TRUE while GET /api/admin-settings is pending
    probeOp,          \* the Test Connection handler in flight, or <<>>
    execReqs,         \* pending POST /api/execute-sql requests
    saveReqs,         \* pending POST /api/save-csv requests
    fileReqs,         \* pending POST /api/execute-file requests
    lastExport,       \* history: filePath of the latest successful save-csv response
    probeSucceeded,   \* history: some test-connection response had success = true
    lastListed        \* history: databases of the latest successful list-databases response

vars == <<credentials, query, loading, result, databases, isConnected,
          abortController, csvFilename, executablePath, executableParams,
          savedCsvPath, adminSettings, settingsReq, probeOp, execReqs,
          saveReqs, fileReqs, lastExport, probeSucceeded, lastListed>>

----------------------------------------------------------------------------
(* Bounds of the model *)

\* at most this many save-csv requests pending at once
MaxSaves == 1

\* at most this many execute-file requests pending at once
MaxInvocations == 1

\* longest export path, in characters, drawn for the substitution check
MaxPathLen == 2

\* longest parameter template, in pieces, drawn for the substitution check
MaxPieces == 3

----------------------------------------------------------------------------
(* Values *)

Undefined == "<undefined>"

Range(s) == {s[i] : i \in 1..Len(s)}

RemoveAt(s, i) == SubSeq(s, 1, i - 1) \o SubSeq(s, i + 1, Len(s))

\* the characters ` and ' (the lexer does not take them inside a string)
Backquote == "<backquote>"
Apostrophe == "<apostrophe>"

\* character sequences of the strings the model splits and searches
CsvPlaceholder == <<"{", "c", "s", "v", "}">>
TemplateIn == <<"-", "-", "i", "n", " ", "{", "c", "s", "v", "}">>
PathOut == <<"/", "t", "m", "p", "/", "o", "u", "t", ".", "c", "s", "v">>
PathB == <<"/", "b">>

\* QueryResult.data: rows (an array), an affected-row count, null, an
\* execute-file output, or absent
NoData == [kind |-> "undefined", rows |-> <<>>]
NullData == [kind |-> "null", rows |-> <<>>]
CountData == [kind |-> "count", rows |-> <<>>]
OutputData == [kind |-> "output", rows |-> <<>>]
RowsData(rs) == [kind |-> "rows", rows |-> rs]

IsArray(d) == d.kind = "rows"

\* interface QueryResult
QueryResult(s, d, e, m) == [success |-> s, data |-> d, error |-> e, message |-> m]

Failure(e) == QueryResult(FALSE, NoData, e, Undefined)

\* messages written by the handlers
FetchDatabasesError == "Failed to fetch databases. Please check your connection and try again."
CancelledError == "Query cancelled by user."
ExecuteQueryError == "Failed to execute query. Please try again."
TestConnectionError == "Failed to test connection. Please try again."
CsvSavedMessage == "CSV file saved successfully"
ExecuteFileError == "Failed to execute file"

\* message of the TypeError a rejected fetch carries
NetworkErrorMessage == "Failed to fetch"

\* e || fallback
OrElse(e, fallback) == IF e = Undefined \/ e = "" THEN fallback ELSE e

\* new Error(e).message
ErrorMessage(e) == IF e = Undefined THEN "" ELSE e

\* result?.error?.includes('Failed to fetch databases'), over the error
\* strings of the model: only the generic enumeration failure contains it
IncludesFetchFailure(r) == r # <<>> /\ r[1].error = FetchDatabasesError

InitialCredentials == [host |-> "", port |-> "", user |-> "", password |-> "", database |-> ""]

InitialSettings ==
    [database |-> [host |-> "", port |-> "", user |-> "", password |-> ""],
     executable |-> [path |-> "", defaultParams |-> <<>>]]

----------------------------------------------------------------------------
(* Inputs: what the operator types and what the collaborators answer *)

CredentialFields == {"host", "port", "user", "password"}

CredentialInputs(f) ==
    CASE f = "host" -> {"", "x"}
      [] f = "port" -> {"", "1"}
      [] f = "user" -> {"", "u"}
      [] f = "password" -> {"", "p"}

QueryInputs == {"", "SELECT 1"}

FilenameInputs == {"", "out.csv"}

ExecutablePathInputs == {"", "/bin/tool"}

ExecutableParamsInputs == {<<>>, TemplateIn}

\* GET /api/admin-settings, success: the settings of the response
SettingsResponses ==
    {[database |-> [host |-> "y", port |-> "1", user |-> "", password |-> ""],
      executable |-> [path |-> "", defaultParams |-> <<>>]],
     [database |-> [host |-> "y", port |-> "1", user |-> "u", password |-> "p"],
      executable |-> [path |-> "/opt/tool", defaultParams |-> TemplateIn]]}

\* POST /api/test-connection: {success, error?}
ProbeResponses ==
    {QueryResult(TRUE, NoData, Undefined, Undefined),
     QueryResult(FALSE, NoData, "Connection refused", Undefined)}

\* POST /api/list-databases: {success, databases, error?}
ListResponses ==
    {[success |-> TRUE, databases |-> <<"db1", "db2">>, error |-> Undefined],
     [success |-> TRUE, databases |-> <<"db2">>, error |-> Undefined],
     [success |-> FALSE, databases |-> <<>>, error |-> Undefined],
     [success |-> FALSE, databases |-> <<>>, error |-> "Access denied"]}

\* POST /api/execute-sql: {success, data?, error?}
ExecResponses ==
    {QueryResult(TRUE, RowsData(<<"row1">>), Undefined, Undefined),
     QueryResult(TRUE, RowsData(<<>>), Undefined, Undefined),
     QueryResult(TRUE, CountData, Undefined, Undefined),
     QueryResult(TRUE, NullData, Undefined, Undefined),
     QueryResult(FALSE, NoData, "You have an error in your SQL syntax", Undefined)}

\* POST /api/save-csv: {success, filePath, error?}
SaveResponses ==
    {[success |-> TRUE, filePath |-> PathOut, error |-> Undefined],
     [success |-> TRUE, filePath |-> PathB, error |-> Undefined],
     [success |-> FALSE, filePath |-> <<>>, error |-> Undefined],
     [success |-> FALSE, filePath |-> <<>>, error |-> "Failed to save CSV file"]}

\* POST /api/execute-file: {success, output?, error?}
FileResponses ==
    {[success |-> TRUE, output |-> OutputData, error |-> Undefined],
     [success |-> FALSE, output |-> NoData, error |-> "spawn ENOENT"],
     [success |-> FALSE, output |-> NoData, error |-> Undefined]}

----------------------------------------------------------------------------
(* The parameter substitution of the Execute handler *)

\* String.prototype.split(' '): the pieces between single spaces, empty
\* pieces included; never the empty list
RECURSIVE SplitFrom(_, _, _)
SplitFrom(s, i, cur) ==
    IF i > Len(s) THEN <<cur>>
    ELSE IF s[i] = " " THEN <<cur>> \o SplitFrom(s, i + 1, <<>>)
    ELSE SplitFrom(s, i + 1, Append(cur, s[i]))

\* variant: the template is passed on as one token
SplitNone(s) == <<s>>

Split(s) == SplitFrom(s, 1, <<>>)

\* String.prototype.indexOf, 1-based; 0 when pat does not occur in s
IndexOf(s, pat) ==
    LET hits == {i \in 1..(Len(s) - Len(pat) + 1) : SubSeq(s, i, i + Len(pat) - 1) = pat}
    IN IF hits = {} THEN 0 ELSE CHOOSE i \in hits : \A j \in hits : i <= j

\* GetSubstitution of String.prototype.replace with a string pattern (no
\* captures): in the replacement text $$ is "$", $& the matched text,
\* $ Backquote the text before the match, $ Apostrophe the text after it;
\* any other "$" is literal
RECURSIVE GetSubstitution(_, _, _, _, _)
GetSubstitution(repl, i, matched, before, after) ==
    IF i > Len(repl) THEN <<>>
    ELSE IF repl[i] = "$" /\ i < Len(repl) /\ repl[i + 1] \in {"$", "&", Backquote, Apostrophe}
    THEN (CASE repl[i + 1] = "$" -> <<"$">>
            [] repl[i + 1] = "&" -> matched
            [] repl[i + 1] = Backquote -> before
            [] repl[i + 1] = Apostrophe -> after)
         \o GetSubstitution(repl, i + 2, matched, before, after)
    ELSE <<repl[i]>> \o GetSubstitution(repl, i + 1, matched, before, after)

\* param.replace(pat, repl) with a string pattern: first occurrence only
Replace(s, pat, repl) ==
    LET i == IndexOf(s, pat)
        before == SubSeq(s, 1, i - 1)
        after == SubSeq(s, i + Len(pat), Len(s))
    IN IF i = 0 THEN s
       ELSE before \o GetSubstitution(repl, 1, pat, before, after) \o after

\* executableParams.split(' ').map(param => param.replace('{csv}', savedCsvPath))
BuildParams(template, path) ==
    LET tokens == Split(template)
    IN [k \in 1..Len(tokens) |-> Replace(tokens[k], CsvPlaceholder, path)]

----------------------------------------------------------------------------
(* What the render offers in the current state *)

\* variant: the Select Database card is rendered for any non-empty list
SelectorShownWithoutConnected == Len(databases) > 0

\* the Select Database card is rendered
SelectorShown == isConnected /\ Len(databases) > 0

\* variant: the Execute File card is rendered unconditionally
ExecuteFileAlwaysShown == TRUE

\* the Execute File card is rendered
ExecuteFileShown == savedCsvPath # <<>>

\* the Execute button of that card is rendered and not disabled
ExecuteFileEnabled == ExecuteFileShown /\ executablePath # ""

\* variant: the Save as CSV row is rendered for any array, empty or not
SaveCsvShownAnyArray ==
    /\ result # <<>>
    /\ result[1].success
    /\ IsArray(result[1].data)

\* the Save as CSV row is rendered
SaveCsvShown ==
    /\ result # <<>>
    /\ result[1].success
    /\ IsArray(result[1].data)
    /\ Len(result[1].data.rows) > 0

\* the Save CSV button is rendered and not disabled
SaveCsvEnabled == SaveCsvShown /\ csvFilename # ""

\* variant: the submit button is never disabled
SubmitAlwaysEnabled == TRUE

\* the buttons of the form: while loading the submit button is disabled and
\* Cancel Query is rendered next to it; Test Connection is disabled
SubmitEnabled == ~loading

CancelShown == loading

\* variant: the Test Connection button is never disabled
TestConnectionAlwaysEnabled == TRUE

TestConnectionEnabled == ~loading

\* constraint validation of the form: every `required` control has a value
\* (the select only while it is rendered, and then one of its own options)
FormValid ==
    /\ credentials.host # ""
    /\ credentials.port # ""
    /\ credentials.user # ""
    /\ credentials.password # ""
    /\ query # ""
    /\ SelectorShown => credentials.database \in Range(databases)

----------------------------------------------------------------------------
(* Initial state: the first render, with the settings request dispatched *)

Init ==
    /\ credentials = InitialCredentials
    /\ query = ""
    /\ loading = FALSE
    /\ result = <<>>
    /\ databases = <<>>
    /\ isConnected = FALSE
    /\ abortController = <<>>
    /\ csvFilename = ""
    /\ executablePath = ""
    /\ executableParams = <<>>
    /\ savedCsvPath = <<>>
    /\ adminSettings = InitialSettings
    /\ settingsReq = TRUE
    /\ probeOp = <<>>
    /\ execReqs = <<>>
    /\ saveReqs = <<>>
    /\ fileReqs = <<>>
    /\ lastExport = <<>>
    /\ probeSucceeded = FALSE
    /\ lastListed = <<>>

----------------------------------------------------------------------------
(* Operator input *)

\* onChange of the host, port, user and password inputs
TypeCredential ==
    \E f \in CredentialFields : \E v \in CredentialInputs(f) :
        /\ credentials' = [credentials EXCEPT ![f] = v]
        /\ UNCHANGED <<query, loading, result, databases, isConnected,
                       abortController, csvFilename, executablePath,
                       executableParams, savedCsvPath, adminSettings,
                       settingsReq, probeOp, execReqs, saveReqs, fileReqs,
                       lastExport,
                   probeSucceeded, lastListed>>

\* onChange of the database select
SelectDatabase ==
    /\ SelectorShown
    /\ \E v \in {""} \cup Range(databases) :
        credentials' = [credentials EXCEPT !.database = v]
    /\ UNCHANGED <<query, loading, result, databases, isConnected,
                   abortController, csvFilename, executablePath,
                   executableParams, savedCsvPath, adminSettings,
                   settingsReq, probeOp, execReqs, saveReqs, fileReqs,
                   lastExport,
                   probeSucceeded, lastListed>>

\* onChange of the query textarea
TypeQuery ==
    /\ \E v \in QueryInputs : query' = v
    /\ UNCHANGED <<credentials, loading, result, databases, isConnected,
                   abortController, csvFilename, executablePath,
                   executableParams, savedCsvPath, adminSettings,
                   settingsReq, probeOp, execReqs, saveReqs, fileReqs,
                   lastExport,
                   probeSucceeded, lastListed>>

\* onChange of the csvFilename input
TypeCsvFilename ==
    /\ SaveCsvShown
    /\ \E v \in FilenameInputs : csvFilename' = v
    /\ UNCHANGED <<credentials, query, loading, result, databases,
                   isConnected, abortController, executablePath,
                   executableParams, savedCsvPath, adminSettings,
                   settingsReq, probeOp, execReqs, saveReqs, fileReqs,
                   lastExport,
                   probeSucceeded, lastListed>>

\* onChange of the executablePath input
TypeExecutablePath ==
    /\ ExecuteFileShown
    /\ \E v \in ExecutablePathInputs : executablePath' = v
    /\ UNCHANGED <<credentials, query, loading, result, databases,
                   isConnected, abortController, csvFilename,
                   executableParams, savedCsvPath, adminSettings,
                   settingsReq, probeOp, execReqs, saveReqs, fileReqs,
                   lastExport,
                   probeSucceeded, lastListed>>

\* onChange of the executableParams input
TypeExecutableParams ==
    /\ ExecuteFileShown
    /\ \E v \in ExecutableParamsInputs : executableParams' = v
    /\ UNCHANGED <<credentials, query, loading, result, databases,
                   isConnected, abortController, csvFilename,
                   executablePath, savedCsvPath, adminSettings,
                   settingsReq, probeOp, execReqs, saveReqs, fileReqs,
                   lastExport,
                   probeSucceeded, lastListed>>

----------------------------------------------------------------------------
(* Settings Loader: the effect of the first render *)

\* continuation of loadSavedSettings after the response.  The effect runs
\* once, with the credentials of the first render closed over.
LoadSettingsSuccess ==
    /\ settingsReq
    /\ \E settings \in SettingsResponses :
        LET closed == InitialCredentials
        IN /\ adminSettings' = settings
           /\ IF closed.host = "" /\ closed.port = "" /\ closed.user = ""
                 /\ closed.password = ""
              THEN credentials' =
                       [closed EXCEPT !.host = settings.database.host,
                                      !.port = settings.database.port,
                                      !.user = settings.database.user,
                                      !.password = settings.database.password]
              ELSE UNCHANGED credentials
    /\ settingsReq' = FALSE
    /\ UNCHANGED <<query, loading, result, databases, isConnected,
                   abortController, csvFilename, executablePath,
                   executableParams, savedCsvPath, probeOp, execReqs,
                   saveReqs, fileReqs, lastExport,
                   probeSucceeded, lastListed>>

\* the response has success = false, or fetch / json() throws
LoadSettingsFailure ==
    /\ settingsReq
    /\ settingsReq' = FALSE
    /\ UNCHANGED <<credentials, query, loading, result, databases,
                   isConnected, abortController, csvFilename,
                   executablePath, executableParams, savedCsvPath,
                   adminSettings, probeOp, execReqs, saveReqs, fileReqs,
                   lastExport,
                   probeSucceeded, lastListed>>

----------------------------------------------------------------------------
(* Connection Probe and Database Enumeration *)

\* onClick of Test Connection, up to the await of /api/test-connection.
\* The handler closes over fetchDatabases of the current render, which
\* closes over the result displayed at the click.
TestConnectionClick ==
    /\ TestConnectionEnabled
    /\ probeOp = <<>>
    /\ loading' = TRUE
    /\ result' = <<>>
    /\ isConnected' = FALSE
    /\ probeOp' = <<[stage |-> "probe", result |-> result]>>
    /\ UNCHANGED <<credentials, query, databases, abortController,
                   csvFilename, executablePath, executableParams,
                   savedCsvPath, adminSettings, settingsReq, execReqs,
                   saveReqs, fileReqs, lastExport,
                   probeSucceeded, lastListed>>

\* the probe answers success: fetchDatabases starts and awaits
\* /api/list-databases
ProbeSuccess ==
    /\ probeOp # <<>> /\ probeOp[1].stage = "probe"
    /\ \E data \in {d \in ProbeResponses : d.success} :
        result' = <<data>>
    /\ isConnected' = TRUE
    /\ probeSucceeded' = TRUE
    /\ loading' = TRUE
    /\ probeOp' = <<[probeOp[1] EXCEPT !.stage = "list"]>>
    /\ UNCHANGED <<credentials, query, databases, abortController,
                   csvFilename, executablePath, executableParams,
                   savedCsvPath, adminSettings, settingsReq, execReqs,
                   saveReqs, fileReqs, lastExport,
                   lastListed>>

\* the probe answers failure
ProbeFailure ==
    /\ probeOp # <<>> /\ probeOp[1].stage = "probe"
    /\ \E data \in {d \in ProbeResponses : ~d.success} :
        result' = <<data>>
    /\ isConnected' = FALSE
    /\ loading' = FALSE
    /\ probeOp' = <<>>
    /\ UNCHANGED <<credentials, query, databases, abortController,
                   csvFilename, executablePath, executableParams,
                   savedCsvPath, adminSettings, settingsReq, execReqs,
                   saveReqs, fileReqs, lastExport,
                   probeSucceeded, lastListed>>

\* fetch or json() of the probe throws
ProbeThrows ==
    /\ probeOp # <<>> /\ probeOp[1].stage = "probe"
    /\ result' = <<Failure(TestConnectionError)>>
    /\ loading' = FALSE
    /\ probeOp' = <<>>
    /\ UNCHANGED <<credentials, query, databases, isConnected,
                   abortController, csvFilename, executablePath,
                   executableParams, savedCsvPath, adminSettings,
                   settingsReq, execReqs, saveReqs, fileReqs, lastExport,
                   probeSucceeded, lastListed>>

\* variant: the success branch of fetchDatabases appends to the list
FetchDatabasesSuccessAppends ==
    /\ probeOp # <<>> /\ probeOp[1].stage = "list"
    /\ \E data \in {d \in ListResponses : d.success} :
        /\ databases' = databases \o data.databases
        /\ lastListed' = <<data.databases>>
    /\ IF IncludesFetchFailure(probeOp[1].result)
       THEN result' = <<>>
       ELSE UNCHANGED result
    /\ loading' = FALSE
    /\ probeOp' = <<>>
    /\ UNCHANGED <<credentials, query, isConnected, abortController,
                   csvFilename, executablePath, executableParams,
                   savedCsvPath, adminSettings, settingsReq, execReqs,
                   saveReqs, fileReqs, lastExport,
                   probeSucceeded>>

\* fetchDatabases: the enumeration answers success; then both finally
\* blocks run
FetchDatabasesSuccess ==
    /\ probeOp # <<>> /\ probeOp[1].stage = "list"
    /\ \E data \in {d \in ListResponses : d.success} :
        /\ databases' = data.databases
        /\ lastListed' = <<data.databases>>
    /\ IF IncludesFetchFailure(probeOp[1].result)
       THEN result' = <<>>
       ELSE UNCHANGED result
    /\ loading' = FALSE
    /\ probeOp' = <<>>
    /\ UNCHANGED <<credentials, query, isConnected, abortController,
                   csvFilename, executablePath, executableParams,
                   savedCsvPath, adminSettings, settingsReq, execReqs,
                   saveReqs, fileReqs, lastExport,
                   probeSucceeded>>

\* variant: the failure branch of fetchDatabases leaves isConnected alone
FetchDatabasesFailureKeepsConnected ==
    /\ probeOp # <<>> /\ probeOp[1].stage = "list"
    /\ \E data \in {d \in ListResponses : ~d.success} :
        result' = <<Failure(OrElse(data.error, FetchDatabasesError))>>
    /\ loading' = FALSE
    /\ probeOp' = <<>>
    /\ UNCHANGED <<credentials, query, databases, isConnected,
                   abortController, csvFilename, executablePath,
                   executableParams, savedCsvPath, adminSettings,
                   settingsReq, execReqs, saveReqs, fileReqs, lastExport,
                   probeSucceeded, lastListed>>

\* fetchDatabases: the enumeration answers failure
FetchDatabasesFailure ==
    /\ probeOp # <<>> /\ probeOp[1].stage = "list"
    /\ \E data \in {d \in ListResponses : ~d.success} :
        result' = <<Failure(OrElse(data.error, FetchDatabasesError))>>
    /\ isConnected' = FALSE
    /\ loading' = FALSE
    /\ probeOp' = <<>>
    /\ UNCHANGED <<credentials, query, databases, abortController,
                   csvFilename, executablePath, executableParams,
                   savedCsvPath, adminSettings, settingsReq, execReqs,
                   saveReqs, fileReqs, lastExport,
                   probeSucceeded, lastListed>>

\* fetchDatabases: fetch or json() throws
FetchDatabasesThrows ==
    /\ probeOp # <<>> /\ probeOp[1].stage = "list"
    /\ result' = <<Failure(FetchDatabasesError)>>
    /\ isConnected' = FALSE
    /\ loading' = FALSE
    /\ probeOp' = <<>>
    /\ UNCHANGED <<credentials, query, databases, abortController,
                   csvFilename, executablePath, executableParams,
                   savedCsvPath, adminSettings, settingsReq, execReqs,
                   saveReqs, fileReqs, lastExport,
                   probeSucceeded, lastListed>>

----------------------------------------------------------------------------
(* Query Session *)

\* new AbortController(): an identity no pending request uses
NewController == CHOOSE id \in 1..(Len(execReqs) + 1) :
                     \A k \in 1..Len(execReqs) : execReqs[k].controller # id

\* onSubmit of the form (handleSubmit), up to the await of /api/execute-sql
handleSubmit ==
    /\ SubmitEnabled
    /\ FormValid
    /\ loading' = TRUE
    /\ result' = <<>>
    /\ abortController' = <<NewController>>
    /\ execReqs' = Append(execReqs,
                          [controller |-> NewController, aborted |-> FALSE])
    /\ UNCHANGED <<credentials, query, databases, isConnected, csvFilename,
                   executablePath, executableParams, savedCsvPath,
                   adminSettings, settingsReq, probeOp, saveReqs, fileReqs,
                   lastExport,
                   probeSucceeded, lastListed>>

\* variant: the catch block does not tell an AbortError apart
SubmitCatchGeneric(aborted) == Failure(ExecuteQueryError)

\* the result the catch block of handleSubmit writes
SubmitCatch(aborted) ==
    IF aborted THEN Failure(CancelledError) ELSE Failure(ExecuteQueryError)

\* handleSubmit after the await: a request whose signal is not aborted is
\* answered, and the response is displayed verbatim
QueryResponds ==
    /\ \E i \in 1..Len(execReqs) :
        /\ ~execReqs[i].aborted
        /\ \E data \in ExecResponses : result' = <<data>>
        /\ execReqs' = RemoveAt(execReqs, i)
    /\ loading' = FALSE
    /\ abortController' = <<>>
    /\ UNCHANGED <<credentials, query, databases, isConnected, csvFilename,
                   executablePath, executableParams, savedCsvPath,
                   adminSettings, settingsReq, probeOp, saveReqs, fileReqs,
                   lastExport,
                   probeSucceeded, lastListed>>

\* variant: the catch path skips the finally block
QueryThrowsWithoutFinally ==
    /\ \E i \in 1..Len(execReqs) :
        /\ result' = <<SubmitCatch(execReqs[i].aborted)>>
        /\ execReqs' = RemoveAt(execReqs, i)
    /\ UNCHANGED <<credentials, query, loading, databases, isConnected,
                   abortController, csvFilename, executablePath,
                   executableParams, savedCsvPath, adminSettings,
                   settingsReq, probeOp, saveReqs, fileReqs, lastExport,
                   probeSucceeded, lastListed>>

\* handleSubmit after the await: fetch or json() throws.  An aborted signal
\* rejects with an AbortError; otherwise the error is a network or parse
\* error.
QueryThrows ==
    /\ \E i \in 1..Len(execReqs) :
        /\ result' = <<SubmitCatch(execReqs[i].aborted)>>
        /\ execReqs' = RemoveAt(execReqs, i)
    /\ loading' = FALSE
    /\ abortController' = <<>>
    /\ UNCHANGED <<credentials, query, databases, isConnected, csvFilename,
                   executablePath, executableParams, savedCsvPath,
                   adminSettings, settingsReq, probeOp, saveReqs, fileReqs,
                   lastExport,
                   probeSucceeded, lastListed>>

\* variant: Cancel Query also drops the loading flag
handleCancelQueryStopsLoading ==
    /\ CancelShown
    /\ IF abortController # <<>>
       THEN execReqs' = [k \in 1..Len(execReqs) |->
                            IF execReqs[k].controller = abortController[1]
                            THEN [execReqs[k] EXCEPT !.aborted = TRUE]
                            ELSE execReqs[k]]
       ELSE UNCHANGED execReqs
    /\ loading' = FALSE
    /\ UNCHANGED <<credentials, query, result, databases, isConnected,
                   abortController, csvFilename, executablePath,
                   executableParams, savedCsvPath, adminSettings,
                   settingsReq, probeOp, saveReqs, fileReqs, lastExport,
                   probeSucceeded, lastListed>>

\* onClick of Cancel Query (handleCancelQuery)
handleCancelQuery ==
    /\ CancelShown
    /\ IF abortController # <<>>
       THEN execReqs' = [k \in 1..Len(execReqs) |->
                            IF execReqs[k].controller = abortController[1]
                            THEN [execReqs[k] EXCEPT !.aborted = TRUE]
                            ELSE execReqs[k]]
       ELSE UNCHANGED execReqs
    /\ UNCHANGED <<credentials, query, loading, result, databases,
                   isConnected, abortController, csvFilename,
                   executablePath, executableParams, savedCsvPath,
                   adminSettings, settingsReq, probeOp, saveReqs, fileReqs,
                   lastExport,
                   probeSucceeded, lastListed>>

----------------------------------------------------------------------------
(* Export Pipeline *)

\* onClick of Save CSV, up to the await of /api/save-csv.  The handler
\* closes over the result displayed at the click.
SaveCsvClick ==
    /\ SaveCsvEnabled
    /\ Len(saveReqs) < MaxSaves
    /\ saveReqs' = Append(saveReqs,
                          [data |-> result[1].data, filename |-> csvFilename])
    /\ UNCHANGED <<credentials, query, loading, result, databases,
                   isConnected, abortController, csvFilename,
                   executablePath, executableParams, savedCsvPath,
                   adminSettings, settingsReq, probeOp, execReqs, fileReqs,
                   lastExport,
                   probeSucceeded, lastListed>>

\* the save answers success
SaveCsvSuccess ==
    /\ \E i \in 1..Len(saveReqs) :
        /\ \E data \in {d \in SaveResponses : d.success} :
            /\ savedCsvPath' = data.filePath
            /\ lastExport' = <<data.filePath>>
        /\ result' = <<QueryResult(TRUE, saveReqs[i].data, Undefined,
                                   CsvSavedMessage)>>
        /\ saveReqs' = RemoveAt(saveReqs, i)
    /\ UNCHANGED <<credentials, query, loading, databases, isConnected,
                   abortController, csvFilename, executablePath,
                   executableParams, adminSettings, settingsReq, probeOp,
                   execReqs, fileReqs, probeSucceeded, lastListed>>

\* variant: the path of the response is recorded before success is tested
SaveCsvFailureRecordsPath ==
    /\ \E i \in 1..Len(saveReqs) :
        /\ \E data \in {d \in SaveResponses : ~d.success} :
            /\ savedCsvPath' = data.filePath
            /\ result' = <<Failure(ErrorMessage(data.error))>>
        /\ saveReqs' = RemoveAt(saveReqs, i)
    /\ UNCHANGED <<credentials, query, loading, databases, isConnected,
                   abortController, csvFilename, executablePath,
                   executableParams, adminSettings,
                   settingsReq, probeOp, execReqs, fileReqs, lastExport,
                   probeSucceeded, lastListed>>

\* the save answers failure: the handler throws new Error(data.error) into
\* its own catch block
SaveCsvFailure ==
    /\ \E i \in 1..Len(saveReqs) :
        /\ \E data \in {d \in SaveResponses : ~d.success} :
            result' = <<Failure(ErrorMessage(data.error))>>
        /\ saveReqs' = RemoveAt(saveReqs, i)
    /\ UNCHANGED <<credentials, query, loading, databases, isConnected,
                   abortController, csvFilename, executablePath,
                   executableParams, savedCsvPath, adminSettings,
                   settingsReq, probeOp, execReqs, fileReqs, lastExport,
                   probeSucceeded, lastListed>>

\* fetch or json() of the save throws an Error
SaveCsvThrows ==
    /\ \E i \in 1..Len(saveReqs) :
        /\ result' = <<Failure(NetworkErrorMessage)>>
        /\ saveReqs' = RemoveAt(saveReqs, i)
    /\ UNCHANGED <<credentials, query, loading, databases, isConnected,
                   abortController, csvFilename, executablePath,
                   executableParams, savedCsvPath, adminSettings,
                   settingsReq, probeOp, execReqs, fileReqs, lastExport,
                   probeSucceeded, lastListed>>

----------------------------------------------------------------------------
(* Invocation Bridge *)

\* onClick of Execute, up to the await of /api/execute-file
ExecuteFileClick ==
    /\ ExecuteFileEnabled
    /\ Len(fileReqs) < MaxInvocations
    /\ fileReqs' = Append(fileReqs,
                          [filePath |-> executablePath,
                           parameters |-> BuildParams(executableParams,
                                                      savedCsvPath)])
    /\ UNCHANGED <<credentials, query, loading, result, databases,
                   isConnected, abortController, csvFilename,
                   executablePath, executableParams, savedCsvPath,
                   adminSettings, settingsReq, probeOp, execReqs, saveReqs,
                   lastExport,
                   probeSucceeded, lastListed>>

\* the launcher answers
ExecuteFileResponds ==
    /\ \E i \in 1..Len(fileReqs) :
        /\ \E data \in FileResponses :
            result' = <<QueryResult(data.success,
                                    IF data.success THEN data.output
                                    ELSE NullData,
                                    data.error, Undefined)>>
        /\ fileReqs' = RemoveAt(fileReqs, i)
    /\ UNCHANGED <<credentials, query, loading, databases, isConnected,
                   abortController, csvFilename, executablePath,
                   executableParams, savedCsvPath, adminSettings,
                   settingsReq, probeOp, execReqs, saveReqs, lastExport,
                   probeSucceeded, lastListed>>

\* fetch or json() of the invocation throws an Error
ExecuteFileThrows ==
    /\ \E i \in 1..Len(fileReqs) :
        /\ result' = <<Failure(NetworkErrorMessage)>>
        /\ fileReqs' = RemoveAt(fileReqs, i)
    /\ UNCHANGED <<credentials, query, loading, databases, isConnected,
                   abortController, csvFilename, executablePath,
                   executableParams, savedCsvPath, adminSettings,
                   settingsReq, probeOp, execReqs, saveReqs, lastExport,
                   probeSucceeded, lastListed>>

----------------------------------------------------------------------------
(* Specifications *)

\* Settings Loader
LoaderStep ==
    \/ LoadSettingsSuccess
    \/ LoadSettingsFailure

\* Connection Probe and Database Enumeration
ProbeStep ==
    \/ SelectDatabase
    \/ TestConnectionClick
    \/ ProbeSuccess
    \/ ProbeFailure
    \/ ProbeThrows
    \/ FetchDatabasesSuccess
    \/ FetchDatabasesFailure
    \/ FetchDatabasesThrows

\* Query Session
QueryStep ==
    \/ TypeQuery
    \/ handleSubmit
    \/ QueryResponds
    \/ QueryThrows
    \/ handleCancelQuery

\* Export Pipeline
ExportStep ==
    \/ TypeCsvFilename
    \/ SaveCsvClick
    \/ SaveCsvSuccess
    \/ SaveCsvFailure
    \/ SaveCsvThrows

\* Invocation Bridge
InvocationStep ==
    \/ TypeExecutablePath
    \/ TypeExecutableParams
    \/ ExecuteFileClick
    \/ ExecuteFileResponds
    \/ ExecuteFileThrows

\* The session with the connection fields as the Settings Loader left them
Next == LoaderStep \/ ProbeStep \/ QueryStep \/ ExportStep \/ InvocationStep

Spec == Init /\ [][Next]_vars

\* The operator edits the connection fields, probes and queries
NextSession == TypeCredential \/ LoaderStep \/ ProbeStep \/ QueryStep

SpecSession == Init /\ [][NextSession]_vars

\* The same session when every execute-sql request is eventually settled:
\* the collaborator answers, the request fails, or the signalled token
\* rejects it
SpecSessionFair == SpecSession /\ WF_vars(QueryResponds \/ QueryThrows)

----------------------------------------------------------------------------
(* The parameter substitution over drawn templates and export paths *)

RECURSIVE Flatten(_)
Flatten(ps) == IF ps = <<>> THEN <<>> ELSE Head(ps) \o Flatten(Tail(ps))

TemplatePieces == {CsvPlaceholder, <<" ">>, <<"a">>}

Templates ==
    {Flatten(ps) : ps \in UNION {[1..n -> TemplatePieces] : n \in 0..MaxPieces}}

PathAlphabet == {"p", "$", "&", Backquote, Apostrophe}

Paths == UNION {[1..n -> PathAlphabet] : n \in 1..MaxPathLen}

\* a state after a successful export: the form is filled, the rows of the
\* last query are displayed with the saved message, the Execute File card
\* is rendered with an executable path typed in
InitParams ==
    /\ credentials = [host |-> "x", port |-> "1", user |-> "u",
                      password |-> "p", database |-> ""]
    /\ query = "SELECT 1"
    /\ loading = FALSE
    /\ result = <<QueryResult(TRUE, RowsData(<<"row1">>), Undefined,
                              CsvSavedMessage)>>
    /\ databases = <<>>
    /\ isConnected = FALSE
    /\ abortController = <<>>
    /\ csvFilename = "out.csv"
    /\ executablePath = "/bin/tool"
    /\ executableParams \in Templates
    /\ savedCsvPath \in Paths
    /\ adminSettings = InitialSettings
    /\ settingsReq = FALSE
    /\ probeOp = <<>>
    /\ execReqs = <<>>
    /\ saveReqs = <<>>
    /\ fileReqs = <<>>
    /\ lastExport = <<savedCsvPath>>
    /\ probeSucceeded = FALSE
    /\ lastListed = <<>>

NextParams == ExecuteFileClick \/ ExecuteFileResponds \/ ExecuteFileThrows

SpecParams == InitParams /\ [][NextParams]_vars

----------------------------------------------------------------------------
(* Properties *)

\* the request a step dispatches is the last one of the primed queue
Dispatched(q) == Len(q') = Len(q) + 1

\* C1: while loading is true (a probe, an enumeration or a query is in
\* flight) no step has the effect of a Submit: no execute-sql request is
\* dispatched, no cancellation token is allocated, and at most one
\* execute-sql request is ever pending.
C1_SubmitRejectedWhileLoading ==
    [][/\ Len(execReqs) <= 1
       /\ loading => /\ ~Dispatched(execReqs)
                     /\ abortController' \in {abortController, <<>>}]_vars

\* C1 witness: a probe is in flight while the form is complete, so only the
\* disabled submit button stands between the operator and a Submit.
C1_Witness == loading /\ probeOp # <<>> /\ FormValid

\* C2: the resolution of a query whose token was signalled writes exactly
\* the cancelled failure, returns the session to Idle and drops the token.
C2_CancelledQueryResult ==
    [][\A i \in 1..Len(execReqs) :
          (execReqs[i].aborted /\ execReqs' = RemoveAt(execReqs, i))
              => /\ result' = <<Failure(CancelledError)>>
                 /\ ~loading'
                 /\ abortController' = <<>>]_vars

\* C2 witness: the session is Idle again and displays the cancelled failure.
C2_Witness ==
    ~loading /\ execReqs = <<>> /\ result = <<Failure(CancelledError)>>

\* C3: when no query is in flight there is no token, and a Cancel changes
\* nothing at all: no state variable and no pending probe or enumeration.
C3_CancelNoOpOutsideExecuting ==
    [][execReqs = <<>> => /\ abortController = <<>>
                          /\ handleCancelQuery => UNCHANGED vars]_vars

\* C3 witness: Cancel Query is rendered during a probe, with no query in
\* flight.
C3_Witness == CancelShown /\ probeOp # <<>> /\ execReqs = <<>>

\* C4: when the settings response arrives while some connection field is
\* non-empty, the credentials are left as they are.
C4_HydrationKeepsTypedCredentials ==
    [][(/\ settingsReq /\ ~settingsReq'
        /\ \/ credentials.host # ""
           \/ credentials.port # ""
           \/ credentials.user # ""
           \/ credentials.password # "")
          => credentials' = credentials]_vars

\* C5: an enumeration starts with connected = true (its probe succeeded),
\* and when it settles with a failure connected is false and the session
\* is Idle.
C5_EnumerationFailureDisconnects ==
    [][(probeOp # <<>> /\ probeOp[1].stage = "list")
          => /\ isConnected
             /\ (probeOp' = <<>> /\ result' # <<>> /\ ~result'[1].success)
                   => ~isConnected' /\ ~loading']_vars

\* C5 witness: the probe has settled on a failed enumeration.
C5_Witness ==
    /\ probeOp = <<>> /\ ~loading /\ ~isConnected
    /\ result = <<Failure(FetchDatabasesError)>>

\* C6: a save-csv request is dispatched only from a state whose displayed
\* result is a success carrying at least one row, with a non-empty
\* filename.
C6_ExportOnlyFromTabularSuccess ==
    [][Dispatched(saveReqs)
          => /\ result # <<>>
             /\ result[1].success
             /\ result[1].data.kind = "rows"
             /\ Len(result[1].data.rows) >= 1
             /\ csvFilename # ""
             /\ saveReqs'[Len(saveReqs')].data = result[1].data]_vars

\* C6 witness: a save-csv request is pending.
C6_Witness == saveReqs # <<>> /\ Len(saveReqs[1].data.rows) >= 1

\* C7: with an empty operator path and a non-empty settings path the
\* Execute action is enabled and dispatches the settings path; with an
\* empty operator parameter field the dispatched tokens are those of the
\* settings' default parameters.
C7_InvocationFallsBackToSettings ==
    [][/\ (ExecuteFileShown /\ executablePath = ""
           /\ adminSettings.executable.path # "") => ExecuteFileEnabled
       /\ (Dispatched(fileReqs) /\ executablePath = "")
             => fileReqs'[Len(fileReqs')].filePath
                  = adminSettings.executable.path
       /\ (Dispatched(fileReqs) /\ executableParams = <<>>)
             => fileReqs'[Len(fileReqs')].parameters
                  = BuildParams(adminSettings.executable.defaultParams,
                                savedCsvPath)]_vars

\* the substitution as the specification states it: the first occurrence
\* of the placeholder is replaced by the path itself
LiteralReplace(s, pat, path) ==
    LET i == IndexOf(s, pat)
    IN IF i = 0 THEN s
       ELSE SubSeq(s, 1, i - 1) \o path \o SubSeq(s, i + Len(pat), Len(s))

StatedParams(template, path) ==
    LET tokens == Split(template)
    IN [k \in 1..Len(tokens) |-> LiteralReplace(tokens[k], CsvPlaceholder, path)]

\* C8: the tokens dispatched to execute-file are the template split on
\* single spaces, each with its first {csv} replaced by the recorded path.
C8_TokensArePathSubstituted ==
    [][Dispatched(fileReqs)
          => fileReqs'[Len(fileReqs')].parameters
               = StatedParams(executableParams, savedCsvPath)]_vars

\* C9: the selected database is empty or one of the current database list.
C9_DatabaseIsListed ==
    credentials.database = "" \/ credentials.database \in Range(databases)

\* C10: whenever the Execute File card is rendered a save-csv request has
\* succeeded before and the recorded path is that of the latest success;
\* an invocation substitutes that path.
C10_InvocationAfterExport ==
    [][/\ ExecuteFileShown => /\ lastExport # <<>>
                              /\ savedCsvPath = lastExport[1]
       /\ Dispatched(fileReqs)
             => /\ lastExport # <<>>
                /\ fileReqs'[Len(fileReqs')].parameters
                     = BuildParams(executableParams, lastExport[1])]_vars

\* C10 witness: an invocation is pending after a successful export.
C10_Witness == fileReqs # <<>> /\ lastExport # <<>>

\* an enumeration settles with success: the probe handler ends and
\* connected stays true
EnumerationSucceeds ==
    /\ probeOp # <<>> /\ probeOp[1].stage = "list"
    /\ probeOp' = <<>>
    /\ isConnected'

\* C11: whenever the database selector is rendered, connected is true, a
\* probe has succeeded before, and the list shown is the non-empty list of
\* the latest successful enumeration.
C11_SelectorOnlyAfterProbeSuccess ==
    SelectorShown => /\ isConnected
                     /\ probeSucceeded
                     /\ lastListed # <<>>
                     /\ databases = lastListed[1]
                     /\ Len(databases) > 0

\* C11 witness: the selector is rendered with the session Idle.
C11_Witness == SelectorShown /\ probeOp = <<>> /\ ~loading

\* C12: the database list always equals the databases of the latest
\* successful enumeration, in the returned order; a successful enumeration
\* with an equal response leaves an equal list.
C12_EnumerationReplacesList ==
    [][/\ lastListed # <<>> => databases = lastListed[1]
       /\ EnumerationSucceeds
             => /\ lastListed' # <<>>
                /\ databases' = lastListed'[1]
                /\ lastListed' = lastListed => databases' = databases]_vars

\* C12 witness: the list was replaced by the shorter of the two responses.
C12_Witness ==
    probeOp = <<>> /\ lastListed = <<databases>> /\ databases = <<"db2">>

\* the state the end-to-end run has built when Execute is clicked: probe
\* and enumeration of ["db1","db2"] succeeded, "db2" is selected, the rows
\* of "SELECT 1" were saved as "out.csv" to "/tmp/out.csv", and the
\* template is "--in {csv}"
EndToEndRun ==
    /\ probeSucceeded /\ isConnected
    /\ lastListed = <<<<"db1", "db2">>>>
    /\ databases = <<"db1", "db2">>
    /\ credentials.database = "db2"
    /\ query = "SELECT 1"
    /\ result = <<QueryResult(TRUE, RowsData(<<"row1">>), Undefined,
                              CsvSavedMessage)>>
    /\ csvFilename = "out.csv"
    /\ lastExport = <<PathOut>>
    /\ savedCsvPath = PathOut
    /\ executableParams = TemplateIn

\* C13: at the end of the end-to-end run the invocation dispatches exactly
\* the tokens ["--in", "/tmp/out.csv"].
C13_EndToEndTokens ==
    [][(EndToEndRun /\ Dispatched(fileReqs))
          => fileReqs'[Len(fileReqs')].parameters
               = <<<<"-", "-", "i", "n">>, PathOut>>]_vars

\* C13 witness: the run has been carried out and its invocation is pending.
C13_Witness ==
    /\ EndToEndRun
    /\ fileReqs # <<>>
    /\ fileReqs[1].parameters = <<<<"-", "-", "i", "n">>, PathOut>>

\* C14: every query that is Executing is eventually settled with the
\* session Idle and the token null, and each resolution by itself clears
\* loading and the token.
C14_QueryReturnsToIdle ==
    /\ [][Len(execReqs') < Len(execReqs)
             => ~loading' /\ abortController' = <<>>]_vars
    /\ (execReqs # <<>>)
          ~> (execReqs = <<>> /\ ~loading /\ abortController = <<>>)

\* C14 witness: the session is Idle again after a query failed with a
\* network error.
C14_Witness ==
    /\ execReqs = <<>> /\ ~loading /\ abortController = <<>>
    /\ result = <<Failure(ExecuteQueryError)>>

\* number of test-connection, list-databases and execute-sql requests in
\* flight (a probe handler awaits one request at a time)
SessionRequestsInFlight == (IF probeOp # <<>> THEN 1 ELSE 0) + Len(execReqs)

\* a step dispatches a test-connection request
ProbeStarted ==
    /\ probeOp' # <<>> /\ probeOp'[1].stage = "probe"
    /\ probeOp = <<>> \/ probeOp[1].stage # "probe"

\* C15: at most one test-connection, list-databases or execute-sql request
\* is in flight; while one is, loading is true and both triggers are
\* disabled, and no step from a loading state dispatches a probe or a
\* query.
C15_OneSessionRequestInFlight ==
    [][/\ SessionRequestsInFlight <= 1
       /\ SessionRequestsInFlight > 0
             => loading /\ ~SubmitEnabled /\ ~TestConnectionEnabled
       /\ loading => ~ProbeStarted /\ ~Dispatched(execReqs)]_vars

\* C15 witness: the enumeration continuation of a probe is in flight.
C15_Witness ==
    /\ probeOp # <<>> /\ probeOp[1].stage = "list"
    /\ loading /\ execReqs = <<>>

\* C16: when the probe and its enumeration both succeed, the result
\* displayed once the session is Idle again is the probe's success
\* payload, whatever was displayed before the probe started.
C16_ProbeSuccessDisplayed ==
    [][EnumerationSucceeds
          => /\ ~loading'
             /\ result' # <<>>
             /\ result'[1] \in {d \in ProbeResponses : d.success}]_vars

\* a save-csv request settles with success
SaveSucceeds ==
    /\ Len(saveReqs') < Len(saveReqs)
    /\ result' # <<>> /\ result'[1].success

\* a save-csv request settles with a failure
SaveFails ==
    /\ Len(saveReqs') < Len(saveReqs)
    /\ result' # <<>> /\ ~result'[1].success

\* C17: a successful save leaves the displayed rows as they were just
\* before its resolution and changes only the message.
C17_SaveKeepsDisplayedRows ==
    [][SaveSucceeds
          => /\ result # <<>>
             /\ result'[1].data = result[1].data
             /\ result'[1].message = CsvSavedMessage]_vars

\* C18: a failed save displays a failure and leaves the recorded export
\* path as it was: a path recorded earlier stays the one an invocation
\* substitutes, and without one the Execute File card stays hidden.
C18_SaveFailureKeepsExportPath ==
    [][SaveFails
          => /\ savedCsvPath' = savedCsvPath
             /\ lastExport' = lastExport
             /\ ExecuteFileShown' = ExecuteFileShown
             /\ lastExport # <<>> => savedCsvPath' = lastExport[1]
             /\ lastExport = <<>> => ~ExecuteFileShown']_vars

\* C18 witness: a save failed after an earlier export had recorded a path.
C18_Witness ==
    /\ savedCsvPath # <<>>
    /\ result = <<Failure("Failed to save CSV file")>>

\* an execute-file request settles with a failure
InvocationFails ==
    /\ Len(fileReqs') < Len(fileReqs)
    /\ result' # <<>> /\ ~result'[1].success

\* the error texts an execute-file failure can supply: the error of the
\* response, or the message of the thrown Error
SuppliedInvocationErrors ==
    ({d.error : d \in FileResponses} \ {Undefined}) \cup {NetworkErrorMessage}

\* C19: a failed invocation displays a failure whose message is the
\* supplied error, or the generic "Failed to execute file" when none is
\* supplied.
C19_InvocationFailureMessage ==
    [][InvocationFails
          => result'[1].error \in SuppliedInvocationErrors \cup {ExecuteFileError}]_vars

\* an execute request settles: its response arrives or its fetch throws
QuerySettles == Len(execReqs') < Len(execReqs)

\* C20: while a query is executing the displayed result stays empty, and
\* the result its resolution writes is not replaced by a save-csv or
\* execute-file request started before that resolution: every such
\* request settles with a setResult, so none is pending when the query
\* settles.
C20_ResultUntouchedWhileExecuting ==
    [][/\ execReqs # <<>> => result = <<>>
       /\ QuerySettles => saveReqs = <<>> /\ fileReqs = <<>>]_vars

====
